---- MODULE Spec2Model ----
(***************************************************************************)
(* The photo form screen of superform-av: src/App.tsx (the screen that     *)
(* POSTs the form) and src/unnamed/part_000 (the earlier revision of the   *)
(* same component, which only shows the confirmation).                     *)
(*                                                                         *)
(* A text is a sequence of strings.  Texts that the code inspects          *)
(* character by character (the description, the image URI, the decimal     *)
(* form of a number) are sequences of one-character strings; a literal     *)
(* of the source that is only displayed is a one-element sequence.         *)
(* A character that TLA+ has no escape for is written by its code point    *)
(* ("U+00A0").  An optional value (T | null | undefined) is <<>> or <<v>>. *)
(* Coordinates are whole degrees.                                          *)
(***************************************************************************)
EXTENDS Bags, FiniteSets, Integers, Sequences, TLC

VARIABLES
    revision,      \* which of the two source files is running
    permissions,   \* requestPermissions: the await it is at, the statuses it holds
    imageUri,      \* useState<string | null>
    description,   \* useState<string>
    location,      \* useState<LocationObject | null>
    isSubmitting,  \* useState<boolean> (App.tsx only)
    cameraOpen,    \* takePicture is awaiting launchCameraAsync
    prefetches,    \* getCurrentLocation calls started by takePicture, unresolved
    inflight,      \* bag of submitForm invocations suspended at an await
    alerts         \* bag of Alert.alert dialogs shown and not yet dismissed

vars == <<revision, permissions, imageUri, description, location, isSubmitting,
          cameraOpen, prefetches, inflight, alerts>>

----------------------------------------------------------------------------
(* Bound of the model: the asynchronous operations (requestPermissions,
   submitForm invocations and location requests of takePicture) that are
   outstanding at once *)

MaxPending == 2

(* Program constants *)

maxLength == 300

----------------------------------------------------------------------------
(* Values *)

Null == <<>>
Some(v) == <<v>>

Revisions == {"App.tsx", "part_000"}

Uris == { <<"d", "/", "a", ".", "P", "N", "G">>, <<"b", ".", "j", "p", "g">> }

Fixes == { [latitude |-> 40, longitude |-> -75], [latitude |-> 0, longitude |-> 7] }

DescriptionInputs ==
    { <<>>, <<"\f", "\n">>, <<" ", "a", " ", "b", "\n">> }

PermissionStatuses == {"granted", "denied"}

CameraResults ==
    { [thrown |-> TRUE, canceled |-> FALSE, assets |-> <<>>],
      [thrown |-> FALSE, canceled |-> TRUE, assets |-> <<>>] }
    \cup { [thrown |-> FALSE, canceled |-> FALSE, assets |-> <<[uri |-> u]>>] : u \in Uris }

PositionResults == {Null} \cup { Some(f) : f \in Fixes }

Statuses == {200, 404}

ResponseBodies ==
    { "{\"message\":\"X\",\"error\":true}", "{\"error\":true}", "null", "<html>" }

(* What fetch rejects with: React Native's TypeError. *)
Rejections == { [isError |-> TRUE, message |-> <<"Network request failed">>] }

(* What await fetch(...) gives: a rejection, or a response with its status. *)
FetchResults ==
    { [rejected |-> TRUE, reason |-> e, status |-> 0] : e \in Rejections }
    \cup { [rejected |-> FALSE, reason |-> [isError |-> FALSE, message |-> <<>>],
            status |-> s] : s \in Statuses }

----------------------------------------------------------------------------
(* String functions of the platform, as the source uses them *)

(* What String.prototype.trim removes: the white space and the line
   terminators of ECMAScript. *)
WhiteSpace ==
    { "\t", "U+000B", "\f", " ", "U+00A0", "U+FEFF",
      "U+1680", "U+2000", "U+2001", "U+2002", "U+2003", "U+2004", "U+2005",
      "U+2006", "U+2007", "U+2008", "U+2009", "U+200A", "U+202F", "U+205F", "U+3000",
      "\n", "\r", "U+2028", "U+2029" }

RECURSIVE trimStart(_)
trimStart(s) ==
    IF s /= <<>> /\ Head(s) \in WhiteSpace THEN trimStart(Tail(s)) ELSE s

RECURSIVE trimEnd(_)
trimEnd(s) ==
    IF s /= <<>> /\ s[Len(s)] \in WhiteSpace
    THEN trimEnd(SubSeq(s, 1, Len(s) - 1))
    ELSE s

(* Faulty variant of trim: trailing white space is kept. *)
trimLeadingOnly(s) == trimStart(s)

trim(s) == trimEnd(trimStart(s))

splitPop(s, sep) ==
    LET at == { k \in 1..Len(s) : s[k] = sep }
        last == CHOOSE k \in at : \A j \in at : j <= k
    IN  IF at = {} THEN s ELSE SubSeq(s, last + 1, Len(s))

lowerChar(c) ==
    CASE c = "P" -> "p"
      [] c = "N" -> "n"
      [] c = "G" -> "g"
      [] c = "J" -> "j"
      [] OTHER -> c

toLowerCase(s) == [k \in 1..Len(s) |-> lowerChar(s[k])]

digit(d) == SubSeq(<<"0", "1", "2", "3", "4", "5", "6", "7", "8", "9">>, d + 1, d + 1)

RECURSIVE digits(_)
digits(n) == IF n < 10 THEN digit(n) ELSE digits(n \div 10) \o digit(n % 10)

String(n) == IF n < 0 THEN <<"-">> \o digits(-n) ELSE digits(n)

ok(status) == status >= 200 /\ status <= 299

JsonParse(raw) ==
    CASE raw = "{\"message\":\"X\",\"error\":true}" ->
            [throws |-> FALSE, value |-> Some([message |-> Some(<<"X">>), error |-> TRUE])]
      [] raw = "{\"error\":true}" ->
            [throws |-> FALSE, value |-> Some([message |-> Null, error |-> TRUE])]
      [] raw = "null" ->
            [throws |-> FALSE, value |-> Null]
      [] OTHER ->
            [throws |-> TRUE, value |-> Null]

----------------------------------------------------------------------------
(* Pieces of the component *)

(* Faulty variant of Falsy: only the empty string counts as no photo. *)
FalsyEmptyOnly(v) == v = Some(<<>>)

Falsy(v) == v = Null \/ v = Some(<<>>)

Alert(source, title, message, clears) ==
    [source |-> source, title |-> title, message |-> message, clears |-> clears]

Show(al, a) == al (+) SetToBag({a})

PermissionsAlert ==
    Alert("requestPermissions", "Permisos requeridos",
          <<"Esta aplicacion necesita permisos de camara y ubicacion para funcionar correctamente.">>,
          FALSE)

CameraAlert == Alert("takePicture", "Error", <<"No se pudo tomar la foto">>, FALSE)

LocationAlert(source) == Alert(source, "Error", <<"No se pudo obtener la ubicacion">>, FALSE)

PhotoRequiredAlert ==
    Alert("submitForm", "Error", <<"Debes tomar una foto antes de enviar el formulario">>, FALSE)

ErrorAlert(message) == Alert("submitForm", "Error", message, FALSE)

SummaryMessage(uri, shownDescription, lat, lng) ==
    <<"Foto: ", IF Falsy(uri) THEN "No incluida" ELSE "Incluida", "\nDescripcion: ">>
    \o (IF shownDescription = <<>> THEN <<"Sin descripcion">> ELSE shownDescription)
    \o <<"\nLatitud: ">> \o String(lat) \o <<"\nLongitud: ">> \o String(lng)

SuccessAlert(message) == Alert("submitForm", "Formulario enviado", message, TRUE)

(* Faulty variant of getCurrentLocation: a rejected request falls back on the last
   location in state instead of null. *)
getCurrentLocationOrLast(outcome, loc, al) ==
    IF outcome /= Null
    THEN [location |-> outcome, alerts |-> al, value |-> outcome]
    ELSE [location |-> loc, alerts |-> Show(al, LocationAlert("getCurrentLocation")),
          value |-> loc]

(* getCurrentLocation: the position request resolved with a fix (Some) or
   rejected (Null); loc and al are the location state and the alerts before. *)
getCurrentLocation(outcome, loc, al) ==
    IF outcome /= Null
    THEN [location |-> outcome, alerts |-> al, value |-> outcome]
    ELSE [location |-> loc, alerts |-> Show(al, LocationAlert("getCurrentLocation")),
          value |-> Null]

(* Faulty variant of Closure: submitForm keeps the description of the first render. *)
ClosureOfFirstRender(uri, text) == [imageUri |-> uri, description |-> <<>>]

(* What the submitForm of the last render closes over. *)
Closure(uri, text) == [imageUri |-> uri, description |-> text]

fileName(uri) == splitPop(uri, "/")

fileExtension(name) == toLowerCase(splitPop(name, "."))

mimeType(extension) ==
    IF extension = <<"p", "n", "g">> THEN <<"image/png">> ELSE <<"image/jpeg">>

superFormPayload(uri, trimmedDescription, currentLocation) ==
    [foto |-> uri,
     description |-> IF trimmedDescription = <<>> THEN Null ELSE Some(trimmedDescription),
     lat |-> currentLocation.latitude,
     lng |-> currentLocation.longitude]

FormData(uri, trimmedDescription, payload) ==
    << <<"foto", [uri |-> uri, name |-> fileName(uri),
                  type |-> mimeType(fileExtension(fileName(uri)))]>>,
       <<"lat", String(payload.lat)>>,
       <<"lng", String(payload.lng)>> >>
    \o (IF trimmedDescription /= <<>>
        THEN << <<"description", trimmedDescription>> >>
        ELSE <<>>)

(* Lines 95-118: everything submitForm derives between the location and the fetch. *)
Request(closure, currentLocation) ==
    LET trimmedDescription == trim(closure.description)
        payload == superFormPayload(closure.imageUri[1], trimmedDescription, currentLocation)
    IN  [imageUri |-> closure.imageUri,
         trimmedDescription |-> trimmedDescription,
         superFormPayload |-> payload,
         body |-> FormData(closure.imageUri[1], trimmedDescription, payload)]

(* Faulty variant of backendMessage: the body's message is ignored. *)
backendMessageIgnored(jsonResponse) == <<"Ocurrio un error al enviar el formulario.">>

backendMessage(jsonResponse) ==
    IF jsonResponse /= Null /\ jsonResponse[1].message /= Null
    THEN jsonResponse[1].message[1]
    ELSE <<"Ocurrio un error al enviar el formulario.">>

errorMessage(error) ==
    IF error.isError THEN error.message ELSE <<"No se pudo enviar el formulario.">>

(* Faulty variant of afterFinally: the flag is cleared at the end of the try block
   instead of in a finally, so a throw leaves it as it is. *)
afterTryOnly(threw, flag) == IF threw THEN flag ELSE FALSE

(* finally { setIsSubmitting(false) } *)
afterFinally(threw, flag) == FALSE

(* Faulty variant of clearedForm: the OK callback forgets setLocation(null). *)
clearedFormKeepingLocation == [imageUri |-> Null, description |-> <<>>, location |-> location]

clearedForm == [imageUri |-> Null, description |-> <<>>, location |-> Null]

submitDisabled == Falsy(imageUri) \/ (revision = "App.tsx" /\ isSubmitting)

(* No dialog is open over the screen: the alerts and the camera are modal. *)
Interactive == alerts = EmptyBag /\ ~cameraOpen

(* The asynchronous operations outstanding: requestPermissions until it
   returns, submitForm invocations, takePicture's location requests *)
Pending ==
    (IF permissions.pc = "done" THEN 0 ELSE 1) + BagCardinality(inflight) + prefetches

Awaiting(pc) == { r \in BagToSet(inflight) : r.pc = pc }

Without(bag, r) == bag (-) SetToBag({r})

----------------------------------------------------------------------------
Init ==
    /\ revision \in Revisions
    /\ permissions = [pc |-> "camera", statuses |-> <<>>]
    /\ imageUri = Null
    /\ description = <<>>
    /\ location = Null
    /\ isSubmitting = FALSE
    /\ cameraOpen = FALSE
    /\ prefetches = 0
    /\ inflight = EmptyBag
    /\ alerts = EmptyBag

(* requestPermissions after await requestCameraPermissionsAsync() *)
CameraPermissionSettled(status) ==
    /\ permissions.pc = "camera"
    /\ permissions' = [pc |-> "mediaLibrary", statuses |-> <<status>>]
    /\ UNCHANGED <<revision, imageUri, description, location, isSubmitting,
                   cameraOpen, prefetches, inflight, alerts>>

(* requestPermissions after await requestMediaLibraryPermissionsAsync() *)
MediaLibraryPermissionSettled(status) ==
    /\ permissions.pc = "mediaLibrary"
    /\ permissions' = [pc |-> "foreground", statuses |-> Append(permissions.statuses, status)]
    /\ UNCHANGED <<revision, imageUri, description, location, isSubmitting,
                   cameraOpen, prefetches, inflight, alerts>>

(* requestPermissions after await requestForegroundPermissionsAsync(), to
   its return *)
ForegroundPermissionSettled(status) ==
    /\ permissions.pc = "foreground"
    /\ LET cameraPermission == permissions.statuses[1]
           mediaLibraryPermission == permissions.statuses[2]
           locationPermission == status
       IN  alerts' = IF \/ cameraPermission /= "granted"
                        \/ mediaLibraryPermission /= "granted"
                        \/ locationPermission /= "granted"
                     THEN Show(alerts, PermissionsAlert)
                     ELSE alerts
    /\ permissions' = [pc |-> "done", statuses |-> <<>>]
    /\ UNCHANGED <<revision, imageUri, description, location, isSubmitting,
                   cameraOpen, prefetches, inflight>>

TakePicture ==
    /\ Interactive
    /\ Pending < MaxPending
    /\ cameraOpen' = TRUE
    /\ UNCHANGED <<revision, permissions, imageUri, description, location, isSubmitting,
                   prefetches, inflight, alerts>>

CameraResolved(result) ==
    /\ cameraOpen
    /\ cameraOpen' = FALSE
    /\ IF result.thrown
       THEN /\ alerts' = Show(alerts, CameraAlert)
            /\ UNCHANGED <<imageUri, prefetches>>
       ELSE IF ~result.canceled /\ result.assets /= <<>>
       THEN /\ imageUri' = Some(result.assets[1].uri)
            /\ prefetches' = IF revision = "App.tsx" THEN prefetches + 1 ELSE prefetches
            /\ UNCHANGED alerts
       ELSE UNCHANGED <<imageUri, prefetches, alerts>>
    /\ UNCHANGED <<revision, permissions, description, location, isSubmitting, inflight>>

(* The getCurrentLocation that takePicture started and does not await, after
   its await getCurrentPositionAsync() *)
PrefetchResolved(outcome) ==
    /\ prefetches > 0
    /\ prefetches' = prefetches - 1
    /\ LET got == getCurrentLocation(outcome, location, alerts)
       IN  location' = got.location /\ alerts' = got.alerts
    /\ UNCHANGED <<revision, permissions, imageUri, description, isSubmitting,
                   cameraOpen, inflight>>

EditDescription(text) ==
    /\ Interactive
    /\ Len(text) <= maxLength
    /\ text /= description
    /\ description' = text
    /\ UNCHANGED <<revision, permissions, imageUri, location, isSubmitting,
                   cameraOpen, prefetches, inflight, alerts>>

(* submitForm from its call to the await inside the getCurrentLocation it
   calls.  closure is what the invocation reads imageUri and description
   from; pressed records the state at the call. *)
submitForm ==
    LET closure == Closure(imageUri, description)
    IN  /\ IF Falsy(closure.imageUri)
           THEN /\ alerts' = Show(alerts, PhotoRequiredAlert)
                /\ UNCHANGED inflight
           ELSE /\ inflight' = inflight (+) SetToBag({
                        [pc |-> "getCurrentPositionAsync", closure |-> closure,
                         pressed |-> [imageUri |-> imageUri, description |-> description]] })
                /\ UNCHANGED alerts
        /\ UNCHANGED <<revision, permissions, imageUri, description, location,
                       isSubmitting, cameraOpen, prefetches>>

PressSubmit ==
    /\ Interactive
    /\ ~submitDisabled
    /\ Pending < MaxPending
    /\ submitForm

InvokeSubmitForm ==
    /\ Interactive
    /\ Pending < MaxPending
    /\ submitForm

(* The getCurrentLocation that the invocation r awaits, after its
   await getCurrentPositionAsync(), to its return: value is what it returns,
   alerted the number of alerts it showed. *)
PositionSettled(r, outcome) ==
    /\ r \in Awaiting("getCurrentPositionAsync")
    /\ LET got == getCurrentLocation(outcome, location, alerts)
       IN  /\ location' = got.location
           /\ alerts' = got.alerts
           /\ inflight' = Without(inflight, r) (+) SetToBag({
                   [pc |-> "getCurrentLocation", closure |-> r.closure,
                    pressed |-> r.pressed, value |-> got.value,
                    alerted |-> BagCardinality(got.alerts) - BagCardinality(alerts)] })
    /\ UNCHANGED <<revision, permissions, imageUri, description, isSubmitting,
                   cameraOpen, prefetches>>

(* submitForm after await getCurrentLocation(), to await fetch(...) or to
   its return *)
LocationResolved(r) ==
    /\ r \in Awaiting("getCurrentLocation")
    /\ LET currentLocation == r.value
       IN  IF currentLocation = Null
           THEN /\ alerts' = Show(alerts, LocationAlert("submitForm"))
                /\ inflight' = Without(inflight, r)
                /\ UNCHANGED isSubmitting
           ELSE IF revision = "App.tsx"
           THEN /\ inflight' = Without(inflight, r) (+) SetToBag({
                        [pc |-> "fetch",
                         request |-> Request(r.closure, currentLocation[1])] })
                /\ isSubmitting' = TRUE
                /\ UNCHANGED alerts
           ELSE /\ alerts' = Show(alerts, SuccessAlert(SummaryMessage(
                                  r.closure.imageUri, r.closure.description,
                                  currentLocation[1].latitude,
                                  currentLocation[1].longitude)))
                /\ inflight' = Without(inflight, r)
                /\ UNCHANGED isSubmitting
    /\ UNCHANGED <<revision, permissions, imageUri, description, location,
                   cameraOpen, prefetches>>

(* submitForm after await fetch(...): to await response.json() when the
   fetch resolved, through catch and finally to its return when it rejected *)
FetchSettled(r, result) ==
    /\ r \in Awaiting("fetch")
    /\ IF result.rejected
       THEN /\ alerts' = Show(alerts, ErrorAlert(errorMessage(result.reason)))
            /\ isSubmitting' = afterFinally(TRUE, isSubmitting)
            /\ inflight' = Without(inflight, r)
       ELSE /\ inflight' = Without(inflight, r) (+) SetToBag({
                    [pc |-> "json", request |-> r.request, status |-> result.status] })
            /\ UNCHANGED <<alerts, isSubmitting>>
    /\ UNCHANGED <<revision, permissions, imageUri, description, location,
                   cameraOpen, prefetches>>

(* submitForm after await response.json().catch(() => null), to its return;
   body is the text that response.json() parses *)
JsonSettled(r, body) ==
    /\ r \in Awaiting("json")
    /\ LET parsed == JsonParse(body)
           jsonResponse == IF parsed.throws THEN Null ELSE parsed.value
           request == r.request
       IN  IF ~ok(r.status)
           THEN /\ alerts' = Show(alerts, ErrorAlert(errorMessage(
                                  [isError |-> TRUE, message |-> backendMessage(jsonResponse)])))
                /\ isSubmitting' = afterFinally(TRUE, isSubmitting)
           ELSE /\ alerts' = Show(alerts, SuccessAlert(SummaryMessage(
                                  request.imageUri, request.trimmedDescription,
                                  request.superFormPayload.lat,
                                  request.superFormPayload.lng)))
                /\ isSubmitting' = afterFinally(FALSE, isSubmitting)
    /\ inflight' = Without(inflight, r)
    /\ UNCHANGED <<revision, permissions, imageUri, description, location,
                   cameraOpen, prefetches>>

(* The OK button of an alert: the confirmation's onPress clears the form *)
DismissAlert(a) ==
    /\ a \in BagToSet(alerts)
    /\ alerts' = Without(alerts, a)
    /\ IF a.clears
       THEN /\ imageUri' = clearedForm.imageUri
            /\ description' = clearedForm.description
            /\ location' = clearedForm.location
       ELSE UNCHANGED <<imageUri, description, location>>
    /\ UNCHANGED <<revision, permissions, isSubmitting, cameraOpen, prefetches, inflight>>

Next ==
    \/ \E status \in PermissionStatuses : CameraPermissionSettled(status)
    \/ \E status \in PermissionStatuses : MediaLibraryPermissionSettled(status)
    \/ \E status \in PermissionStatuses : ForegroundPermissionSettled(status)
    \/ TakePicture
    \/ \E result \in CameraResults : CameraResolved(result)
    \/ \E outcome \in PositionResults : PrefetchResolved(outcome)
    \/ \E text \in DescriptionInputs : EditDescription(text)
    \/ PressSubmit
    \/ \E r \in BagToSet(inflight), outcome \in PositionResults : PositionSettled(r, outcome)
    \/ \E r \in BagToSet(inflight) : LocationResolved(r)
    \/ \E r \in BagToSet(inflight), result \in FetchResults : FetchSettled(r, result)
    \/ \E r \in BagToSet(inflight), body \in ResponseBodies : JsonSettled(r, body)
    \/ \E a \in BagToSet(alerts) : DismissAlert(a)

Spec == Init /\ [][Next]_vars

NextHandler == Next \/ InvokeSubmitForm

SpecHandler == Init /\ [][NextHandler]_vars

(* The awaits of submitForm settle and their continuations run. *)
Completions ==
    \/ \E r \in BagToSet(inflight), outcome \in PositionResults : PositionSettled(r, outcome)
    \/ \E r \in BagToSet(inflight) : LocationResolved(r)
    \/ \E r \in BagToSet(inflight), result \in FetchResults : FetchSettled(r, result)
    \/ \E r \in BagToSet(inflight), body \in ResponseBodies : JsonSettled(r, body)

FairSpec == Spec /\ WF_vars(Completions)

----------------
(* What a step did, read off the two states of the step *)

Finished(r) == r \in BagToSet(inflight) /\ inflight' = Without(inflight, r)

NewAlerts == BagCardinality(alerts') - BagCardinality(alerts)

(* The alerts the invocation r showed in its earlier steps *)
AlertedBefore(r) == IF r.pc = "getCurrentLocation" THEN r.alerted ELSE 0

ConfirmationShown ==
    \E a \in BagToSet(alerts') : a.clears /\ CopiesIn(a, alerts') > CopiesIn(a, alerts)

(* The POSTs sent and not yet answered *)
PostsOutstanding == BagCardinality([r \in Awaiting("fetch") |-> inflight[r]])

FieldNames(body) == [k \in 1..Len(body) |-> body[k][1]]

FieldValue(body, name) == body[CHOOSE k \in 1..Len(body) : body[k][1] = name][2]

(* The invocation r, holding the fix its getCurrentLocation returned, issues
   the POST as the invocation s. *)
Posts(r, s) ==
    /\ revision = "App.tsx"
    /\ r.value /= Null
    /\ LocationResolved(r)
    /\ s \in BagToSet(inflight')
    /\ s.pc = "fetch"
    /\ inflight' = Without(inflight, r) (+) SetToBag({s})

(* The value of a decimal numeral, and whether a text is one in the form
   String gives (no leading zero, a minus sign only before a non-zero). *)
DigitOf(c) ==
    CASE c = "0" -> 0 [] c = "1" -> 1 [] c = "2" -> 2 [] c = "3" -> 3 [] c = "4" -> 4
      [] c = "5" -> 5 [] c = "6" -> 6 [] c = "7" -> 7 [] c = "8" -> 8 [] c = "9" -> 9

RECURSIVE Decimal(_)
Decimal(t) ==
    IF Len(t) = 1
    THEN DigitOf(t[1])
    ELSE 10 * Decimal(SubSeq(t, 1, Len(t) - 1)) + DigitOf(t[Len(t)])

IsNumeral(t) ==
    LET m == IF t /= <<>> /\ t[1] = "-" THEN Tail(t) ELSE t
    IN  /\ m /= <<>>
        /\ \A k \in 1..Len(m) : m[k] \in {"0", "1", "2", "3", "4", "5", "6", "7", "8", "9"}
        /\ Len(m) > 1 => m[1] /= "0"
        /\ t[1] = "-" => m /= <<"0">>

NumeralValue(t) == IF t[1] = "-" THEN 0 - Decimal(Tail(t)) ELSE Decimal(t)

(* v is text without the white space at its two ends, and is not empty. *)
IsTrimmed(v, text) ==
    /\ v /= <<>>
    /\ v[1] \notin WhiteSpace
    /\ v[Len(v)] \notin WhiteSpace
    /\ \E i \in 0..Len(text) :
          /\ i + Len(v) <= Len(text)
          /\ v = SubSeq(text, i + 1, i + Len(v))
          /\ \A k \in 1..Len(text) : (k <= i \/ k > i + Len(v)) => text[k] \in WhiteSpace

----------------------------------------------------------------------------
(* C1: when submitForm is invoked while imageUri is null, the step shows the
   one alert "Debes tomar una foto..." and nothing else happens: no invocation
   is left waiting for a location or a response (no location fetch, no POST),
   isSubmitting is not set, and imageUri, description and location keep
   their values.  Checked under SpecHandler, where the handler also runs
   while the button is rendered disabled. *)
C1_NoPhotoRejected ==
    [][(imageUri = Null /\ InvokeSubmitForm) =>
          /\ alerts' = Show(alerts, PhotoRequiredAlert)
          /\ NewAlerts = 1
          /\ inflight' = inflight
          /\ prefetches' = prefetches
          /\ isSubmitting' = isSubmitting
          /\ imageUri' = imageUri /\ description' = description /\ location' = location]_vars

(* C1 witness: the photo-required alert is on screen. *)
C1_Witness == CopiesIn(PhotoRequiredAlert, alerts) > 0 /\ imageUri = Null

(* C2: when the location request of a submitForm invocation that holds a photo
   is rejected, getCurrentLocation returns null to it, and the invocation then
   ends: it is removed without leaving a POST behind; neither of the two steps
   touches isSubmitting, imageUri or description. *)
C2_NoLocationRejected ==
    [][/\ \A r \in Awaiting("getCurrentPositionAsync") :
            (r.pressed.imageUri /= Null /\ PositionSettled(r, Null)) =>
                /\ \E s \in Awaiting("getCurrentLocation")' :
                      /\ s.value = Null
                      /\ inflight' = Without(inflight, r) (+) SetToBag({s})
                /\ PostsOutstanding' = PostsOutstanding
                /\ isSubmitting' = isSubmitting
                /\ imageUri' = imageUri /\ description' = description
       /\ \A r \in Awaiting("getCurrentLocation") :
            (r.pressed.imageUri /= Null /\ r.value = Null /\ LocationResolved(r)) =>
                /\ inflight' = Without(inflight, r)
                /\ PostsOutstanding' = PostsOutstanding
                /\ isSubmitting' = isSubmitting
                /\ imageUri' = imageUri /\ description' = description]_vars

(* C2 witness: submitForm's own location alert is on screen. *)
C2_Witness == CopiesIn(LocationAlert("submitForm"), alerts) > 0

(* C3: two POST requests are never outstanding together. *)
C3_OnePostAtATime == PostsOutstanding <= 1

(* C4: an invocation that set isSubmitting leaves it false when it ends, on
   each of its exits (fetch rejected, non-2xx, 2xx); and, the asynchronous
   completions being fair, isSubmitting never stays true. *)
C4_FlagCleared ==
    /\ [][\A r \in Awaiting("fetch") \cup Awaiting("json") :
              Finished(r) => ~isSubmitting']_vars
    /\ (isSubmitting ~> ~isSubmitting)

(* C4 witness: a submission has ended on a network error and the flag is down. *)
C4_Witness ==
    /\ ~isSubmitting
    /\ CopiesIn(ErrorAlert(<<"Network request failed">>), alerts) > 0

(* C5 as claimed: the step in which the 2xx response is handled puts imageUri
   to null, description to "" and location to null. *)
C5_ResetOnResponse ==
    [][\A r \in Awaiting("json"), body \in ResponseBodies :
          (JsonSettled(r, body) /\ r.status >= 200 /\ r.status <= 299) =>
              imageUri' = Null /\ description' = <<>> /\ location' = Null]_vars

(* C5 as amended: a successful submission shows the confirmation alert and
   leaves imageUri, description and location as they are; dismissing that
   alert with its OK button is what puts them to null, "" and null. *)
C5_ResetOnConfirm ==
    [][(\A r \in BagToSet(inflight) :
            (Finished(r) /\ ConfirmationShown) =>
                /\ NewAlerts = 1
                /\ imageUri' = imageUri /\ description' = description
                /\ location' = location)
       /\ (\A a \in BagToSet(alerts) :
            (a.title = "Formulario enviado" /\ alerts' = Without(alerts, a)) =>
                imageUri' = Null /\ description' = <<>> /\ location' = Null)]_vars

(* C5 witness: the form is empty again although a photo had been taken (the
   location prefetch takePicture started is still pending, and only the OK
   callback puts imageUri back to null). *)
C5_Witness ==
    /\ prefetches > 0
    /\ imageUri = Null /\ description = <<>> /\ location = Null

(* C6: when the body of the response has been read, a 2xx status gives the
   confirmation whatever the body is, and any other status gives one error
   alert whose message is the body's message when the body parses and has one
   ("X"), and the generic message when the body does not parse (or has no
   message). *)
C6_BackendMessage ==
    [][\A r \in Awaiting("json"), body \in ResponseBodies :
          JsonSettled(r, body) =>
              /\ NewAlerts = 1
              /\ IF r.status >= 200 /\ r.status <= 299
                 THEN ConfirmationShown
                 ELSE alerts' = Show(alerts, ErrorAlert(
                          IF body = "{\"message\":\"X\",\"error\":true}"
                          THEN <<"X">>
                          ELSE <<"Ocurrio un error al enviar el formulario.">>))]_vars

(* C6 witness: an error alert showing the backend's message is on screen. *)
C6_Witness == CopiesIn(ErrorAlert(<<"X">>), alerts) > 0

(* C7: the invocation holds the fix its own location request gave, and the
   body of its POST holds foto, lat and lng, in that order, and then
   description exactly when the description has a character that is not white
   space; the description sent is the text without the white space at its
   ends, and lat and lng are the decimal numerals of that fix. *)
C7_FormBody ==
    [][/\ \A r \in Awaiting("getCurrentPositionAsync"), fix \in Fixes :
            PositionSettled(r, Some(fix)) =>
                \E s \in Awaiting("getCurrentLocation")' :
                    /\ s.value = Some(fix)
                    /\ inflight' = Without(inflight, r) (+) SetToBag({s})
       /\ \A r \in Awaiting("getCurrentLocation") :
            (r.value /= Null /\ LocationResolved(r) /\ revision = "App.tsx") =>
                \E s \in BagToSet(inflight') :
                    /\ Posts(r, s)
                    /\ LET body == s.request.body
                           text == r.pressed.description
                           fix == r.value[1]
                           lat == FieldValue(body, "lat")
                           lng == FieldValue(body, "lng")
                       IN  /\ FieldNames(body) =
                                 IF \E k \in 1..Len(text) : text[k] \notin WhiteSpace
                                 THEN <<"foto", "lat", "lng", "description">>
                                 ELSE <<"foto", "lat", "lng">>
                           /\ Len(body) = 4 => IsTrimmed(FieldValue(body, "description"), text)
                           /\ IsNumeral(lat) /\ NumeralValue(lat) = fix.latitude
                           /\ IsNumeral(lng) /\ NumeralValue(lng) = fix.longitude]_vars

(* C7 witness: a POST is outstanding whose description is "a b", which only
   the padded input " a b\n" gives. *)
C7_Witness ==
    \E s \in Awaiting("fetch") :
        /\ Len(s.request.body) = 4
        /\ FieldValue(s.request.body, "description") = <<"a", " ", "b">>
        /\ FieldValue(s.request.body, "lng") = <<"-", "7", "5">>

(* C8: a submit attempt that ends in failure after the photo check (no
   location, network error, non-2xx) has shown exactly one alert, counting
   the alerts of its earlier steps. *)
C8_OneAlertPerFailure ==
    [][\A r \in BagToSet(inflight) :
          (Finished(r) /\ ~ConfirmationShown) => AlertedBefore(r) + NewAlerts = 1]_vars

(* C9: when a submission fails (fetch rejected or non-2xx), imageUri and
   description are left as they are, isSubmitting is false, and the submit
   button is enabled again. *)
C9_RetryAfterFailure ==
    [][\A r \in Awaiting("fetch") \cup Awaiting("json") :
          (Finished(r) /\ ~ConfirmationShown) =>
              /\ imageUri' = imageUri /\ description' = description
              /\ ~isSubmitting'
              /\ ~submitDisabled']_vars

(* C10: the POST carries the image and the description that were in state
   when submit was pressed, whatever imageUri and description have become
   while the invocation was waiting for its location. *)
C10_PostCarriesPressedState ==
    [][\A r \in Awaiting("getCurrentLocation") :
          (r.value /= Null /\ LocationResolved(r) /\ revision = "App.tsx") =>
              \E s \in BagToSet(inflight') :
                  /\ Posts(r, s)
                  /\ FieldValue(s.request.body, "foto").uri = r.pressed.imageUri[1]
                  /\ IF trim(r.pressed.description) = <<>>
                     THEN Len(s.request.body) = 3
                     ELSE /\ Len(s.request.body) = 4
                          /\ FieldValue(s.request.body, "description")
                                 = trim(r.pressed.description)]_vars

(* C10 witness: an invocation is waiting for its location while both the
   photo and the description in state differ from those it was pressed with. *)
C10_Witness ==
    /\ revision = "App.tsx"
    /\ \E r \in Awaiting("getCurrentPositionAsync") :
          /\ imageUri /= Null /\ imageUri /= r.pressed.imageUri
          /\ trim(description) /= trim(r.pressed.description)

====
